---- MODULE Spec2Model ----
(***************************************************************************)
(* Model of the ADMET scoring engine of Main_functions/ranker.py           *)
(* (rank_n, calcular_puntaje_admet).                                       *)
(*                                                                         *)
(* Numbers.  Every property value, threshold, weight and score is kept in  *)
(* hundredths (0.3 is 30, a weight of 1.5 is 150), so that the tier        *)
(* products peso*0.5 and peso*0.3 are exact for weights that are multiples *)
(* of 0.1.  The normalized score is kept in ten-thousandths, the precision *)
(* round(x, 4) leaves.  n_threshold is kept in tenths (1.5 is 15).         *)
(* Binary floating point rounding of the sums is not modelled.             *)
(*                                                                         *)
(* Values.  A cell of the row is a record [t, v]: t = "num" with v the     *)
(* number, or t one of "None", "NaN", "No", "Yes" (two strings),           *)
(* "DashList" (the list ['-']) and "DashStr" (the string "['-']"), with    *)
(* v = 0.  A column that is not a key of the row is not in DOMAIN row.     *)
(***************************************************************************)
EXTENDS Integers, Sequences, FiniteSets, TLC

VARIABLES
  row,              \* the row argument: column name -> cell
  rowIsSeries,      \* isinstance(row, pd.Series)
  pesosArg,         \* the pesos argument: None or a dict
  return_breakdown, \* the return_breakdown argument
  flags,            \* the seven category arguments FQ .. Tox
  pesos,            \* the local pesos after line 99
  pc,               \* 0: entry; i in 1..NRules: before rule i; NRules+1: after the try
  score, max_score, breakdown,
  ret,              \* what the call gave back
  rk,               \* a direct call of rank_n: its arguments and what it gave back
  dfs_list,         \* calcular_puntaje_admet_por_rubro: its tables, with the columns it adds
  results_list,     \* calcular_puntaje_admet_por_rubro: the tables collected so far
  rubro,            \* calcular_puntaje_admet_por_rubro: the table the loop is at, the outcome
  dfs,              \* consensus_score: its argument
  consensus         \* consensus_score: what it gave back

aggregate == <<dfs_list, results_list, rubro, dfs, consensus>>

vars == <<row, rowIsSeries, pesosArg, return_breakdown, flags, pesos, pc,
          score, max_score, breakdown, ret, rk, aggregate>>

---------------------------------------------------------------------------
\* Cells

None == [t |-> "None", v |-> 0]
NaN == [t |-> "NaN", v |-> 0]
Num(x) == [t |-> "num", v |-> x]
Str(s) == [t |-> s, v |-> 0]

IsNone(c) == c.t = "None"
IsNumber(c) == c.t \in {"num", "NaN"}

\* bool(c): None, 0 and 0.0 are false; NaN, non-empty strings and lists are true
Truthy(c) == ~ (c.t = "None" \/ (c.t = "num" /\ c.v = 0))

\* c <= x and c >= x for a float threshold x: False on NaN; a string or a
\* list raises TypeError (see RaisesTypeError)
Le(c, x) == c.t = "num" /\ c.v <= x
Ge(c, x) == c.t = "num" /\ c.v >= x
Gt(c, x) == c.t = "num" /\ c.v > x

\* peso * 0.5 and peso * 0.3
Half_doubled(peso) == peso * 2
Half(peso) == peso \div 2
ThreeTenths(peso) == (peso * 3) \div 10

---------------------------------------------------------------------------
\* rank_n

\* rank_n without the test variable is None: None <= best_threshold raises
rank_n_raises_on_none(variable, n_threshold) ==
  /\ n_threshold \in {30, 20, 15, 10}
  /\ ~ IsNumber(variable)

rank_n_raises(variable, n_threshold) ==
  /\ ~ IsNone(variable)
  /\ n_threshold \in {30, 20, 15, 10}
  /\ ~ IsNumber(variable)

\* rank_n with variable < best_threshold where the code has <=
rank_n_strict(variable, peso, n_threshold, best_threshold, middle_threshold) ==
  IF IsNone(variable) THEN 0
  ELSE IF n_threshold = 30 THEN
         IF Le(variable, best_threshold - 1) THEN peso
         ELSE IF Le(variable, middle_threshold) THEN Half(peso)
         ELSE ThreeTenths(peso)
  ELSE IF n_threshold = 20 THEN
         IF Le(variable, best_threshold - 1) THEN peso
         ELSE IF Le(variable, middle_threshold) THEN Half(peso)
         ELSE 0
  ELSE IF n_threshold = 15 THEN
         IF Le(variable, best_threshold - 1) THEN peso ELSE Half(peso)
  ELSE IF n_threshold = 10 THEN
         IF Le(variable, best_threshold - 1) THEN peso ELSE 0
  ELSE 0

\* rank_n taking any other n_threshold for the one-tier policy
rank_n_other_as_one_tier(variable, peso, n_threshold, best_threshold, middle_threshold) ==
  IF IsNone(variable) THEN 0
  ELSE IF n_threshold = 30 THEN
         IF Le(variable, best_threshold) THEN peso
         ELSE IF Le(variable, middle_threshold) THEN Half(peso)
         ELSE ThreeTenths(peso)
  ELSE IF n_threshold = 20 THEN
         IF Le(variable, best_threshold) THEN peso
         ELSE IF Le(variable, middle_threshold) THEN Half(peso)
         ELSE 0
  ELSE IF n_threshold = 15 THEN
         IF Le(variable, best_threshold) THEN peso ELSE Half(peso)
  ELSE IF Le(variable, best_threshold) THEN peso ELSE 0

\* rank_n with the third tier of n_threshold == 3 under n_threshold == 2
rank_n_two_as_three(variable, peso, n_threshold, best_threshold, middle_threshold) ==
  IF IsNone(variable) THEN 0
  ELSE IF n_threshold \in {30, 20} THEN
         IF Le(variable, best_threshold) THEN peso
         ELSE IF Le(variable, middle_threshold) THEN Half(peso)
         ELSE ThreeTenths(peso)
  ELSE IF n_threshold = 15 THEN
         IF Le(variable, best_threshold) THEN peso ELSE Half(peso)
  ELSE IF n_threshold = 10 THEN
         IF Le(variable, best_threshold) THEN peso ELSE 0
  ELSE 0

rank_n(variable, peso, n_threshold, best_threshold, middle_threshold) ==
  IF IsNone(variable) THEN 0
  ELSE IF n_threshold = 30 THEN
         IF Le(variable, best_threshold) THEN peso
         ELSE IF Le(variable, middle_threshold) THEN Half(peso)
         ELSE ThreeTenths(peso)
  ELSE IF n_threshold = 20 THEN
         IF Le(variable, best_threshold) THEN peso
         ELSE IF Le(variable, middle_threshold) THEN Half(peso)
         ELSE 0
  ELSE IF n_threshold = 15 THEN
         IF Le(variable, best_threshold) THEN peso ELSE Half(peso)
  ELSE IF n_threshold = 10 THEN
         IF Le(variable, best_threshold) THEN peso ELSE 0
  ELSE 0

---------------------------------------------------------------------------
\* The weight table and the rule table of calcular_puntaje_admet

DEFAULT_WEIGHTS ==
  ("stereo" :> 100) @@
  ("logD" :> 100) @@
  ("logP" :> 100) @@
  ("free_energy_hyd" :> 100) @@
  ("qed" :> 50) @@
  ("SAscore" :> 100) @@
  ("ghose" :> 100) @@
  ("lead" :> 100) @@
  ("brenk" :> 100) @@
  ("bioavailability" :> 50) @@
  ("alarm_nmr" :> 100) @@
  ("coloidal_ag" :> 100) @@
  ("reactive" :> 50) @@
  ("green_fluor" :> 50) @@
  ("other_interference" :> 50) @@
  ("caco2" :> 150) @@
  ("pampa" :> 150) @@
  ("mdck" :> 100) @@
  ("pgp_subs" :> 150) @@
  ("hia" :> 50) @@
  ("logvds" :> 100) @@
  ("fu" :> 50) @@
  ("cns_permeability" :> 50) @@
  ("mrp1" :> 100) @@
  ("bsep" :> 100) @@
  ("oatp1b3" :> 100) @@
  ("oatp1b1" :> 100) @@
  ("CYP2C9_inh" :> 50) @@
  ("CYP2C8_inh" :> 100) @@
  ("CYP2C19_inh" :> 100) @@
  ("CYP2C19_sub" :> 100) @@
  ("CYP2D6_inh" :> 150) @@
  ("CYP2D6_sub" :> 150) @@
  ("CYP3A4_inh" :> 150) @@
  ("CYP3A4_sub" :> 150) @@
  ("CYP2B6_inh" :> 100) @@
  ("hlm_stab" :> 100) @@
  ("oct2_subs" :> 100) @@
  ("cl_total" :> 50) @@
  ("cl_plasma" :> 50) @@
  ("neuro_tox" :> 100) @@
  ("oto_tox" :> 100) @@
  ("hema_tox" :> 100) @@
  ("gen_tox" :> 100) @@
  ("carcino_tox" :> 100) @@
  ("ames" :> 150) @@
  ("herg" :> 50) @@
  ("herg_10um" :> 50) @@
  ("hepa_tox" :> 100) @@
  ("dili" :> 100) @@
  ("LC50FM" :> 100) @@
  ("A549" :> 100) @@
  ("HEK293" :> 50) @@
  ("ROA" :> 100) @@
  ("FDAMDD" :> 100) @@
  ("IGC50" :> 100) @@
  ("LC50DM" :> 100) @@
  ("nr_ar" :> 100) @@
  ("nr_ar_lbd" :> 50) @@
  ("nr_er" :> 100) @@
  ("nr_arom" :> 100) @@
  ("nr_ahr" :> 50) @@
  ("sr_are" :> 100) @@
  ("sr_atad5" :> 50) @@
  ("sr_mmp" :> 50) @@
  ("sr_p53" :> 100) @@
  ("sure_chembl" :> 100)

Rules ==
  <<
    [key |-> "stereo", cat |-> "FQ", kind |-> "rank", res |-> "get", cols |-> <<"nStereo", "stereo_centers">>, n |-> 10, a |-> 200, b |-> 70],
    [key |-> "logD", cat |-> "FQ", kind |-> "range", res |-> "get", cols |-> <<"logD">>, n |-> 0, a |-> 100, b |-> 300],
    [key |-> "logP", cat |-> "FQ", kind |-> "tri_logp", res |-> "or", cols |-> <<"WLOGP", "LOGP", "logP">>, n |-> 0, a |-> 95, b |-> 220],
    [key |-> "free_energy_hyd", cat |-> "FQ", kind |-> "ge", res |-> "get", cols |-> <<"HydrationFreeEnergy_FreeSolv">>, n |-> 0, a |-> -700, b |-> 0],
    [key |-> "qed", cat |-> "MedChem", kind |-> "tri_gt", res |-> "get", cols |-> <<"QED">>, n |-> 0, a |-> 67, b |-> 49],
    [key |-> "SAscore", cat |-> "MedChem", kind |-> "rank", res |-> "get", cols |-> <<"Synthetic Accessibility", "Synth">>, n |-> 20, a |-> 425, b |-> 600],
    [key |-> "ghose", cat |-> "MedChem", kind |-> "rank", res |-> "get", cols |-> <<"Ghose #violations">>, n |-> 20, a |-> 0, b |-> 100],
    [key |-> "lead", cat |-> "MedChem", kind |-> "rank", res |-> "get", cols |-> <<"Leadlikeness #violations">>, n |-> 20, a |-> 0, b |-> 100],
    [key |-> "brenk", cat |-> "MedChem", kind |-> "rank", res |-> "get", cols |-> <<"Brenk #alerts">>, n |-> 20, a |-> 0, b |-> 100],
    [key |-> "bioavailability", cat |-> "MedChem", kind |-> "ge", res |-> "get", cols |-> <<"Bioavailability_Ma", "Bioavailability Score">>, n |-> 0, a |-> 55, b |-> 0],
    [key |-> "alarm_nmr", cat |-> "MedChem", kind |-> "list", res |-> "get", cols |-> <<"Alarm_NMR">>, n |-> 0, a |-> 0, b |-> 0],
    [key |-> "coloidal_ag", cat |-> "MedChem", kind |-> "rank", res |-> "get", cols |-> <<"Aggregators">>, n |-> 20, a |-> 30, b |-> 70],
    [key |-> "reactive", cat |-> "MedChem", kind |-> "rank", res |-> "get", cols |-> <<"Reactive">>, n |-> 20, a |-> 30, b |-> 70],
    [key |-> "green_fluor", cat |-> "MedChem", kind |-> "rank", res |-> "get", cols |-> <<"Green_fluorescence">>, n |-> 20, a |-> 30, b |-> 70],
    [key |-> "other_interference", cat |-> "MedChem", kind |-> "rank", res |-> "get", cols |-> <<"Other_assay_interference">>, n |-> 20, a |-> 30, b |-> 70],
    [key |-> "caco2", cat |-> "Abs", kind |-> "ge", res |-> "or", cols |-> <<"Caco2_Wang", "caco2">>, n |-> 0, a |-> -515, b |-> 0],
    [key |-> "caco2", cat |-> "Abs", kind |-> "ge", res |-> "get", cols |-> <<"Caco2 permeability">>, n |-> 0, a |-> 90, b |-> 0],
    [key |-> "pampa", cat |-> "Abs", kind |-> "tri_ge", res |-> "get", cols |-> <<"PAMPA_NCATS">>, n |-> 0, a |-> 70, b |-> 30],
    [key |-> "pampa", cat |-> "Abs", kind |-> "rank", res |-> "get", cols |-> <<"PAMPA">>, n |-> 20, a |-> 30, b |-> 70],
    [key |-> "mdck", cat |-> "Abs", kind |-> "range", res |-> "get", cols |-> <<"MDCK">>, n |-> 0, a |-> -526, b |-> 517],
    [key |-> "pgp_subs", cat |-> "Abs", kind |-> "rank", res |-> "get", cols |-> <<"pgp_sub">>, n |-> 30, a |-> 30, b |-> 70],
    [key |-> "pgp_subs", cat |-> "Abs", kind |-> "cat", res |-> "get", cols |-> <<"Pgp substrate", "P-glycoprotein substrate">>, n |-> 0, a |-> 0, b |-> 0],
    [key |-> "hia", cat |-> "Abs", kind |-> "range", res |-> "get", cols |-> <<"Intestinal absorption (human)">>, n |-> 0, a |-> 3000, b |-> 7000],
    [key |-> "logvds", cat |-> "Dis", kind |-> "range", res |-> "get", cols |-> <<"VDss (human)">>, n |-> 0, a |-> 45, b |-> 75],
    [key |-> "logvds", cat |-> "Dis", kind |-> "range", res |-> "get", cols |-> <<"VDss_Lombardo">>, n |-> 0, a |-> 200, b |-> 500],
    [key |-> "logvds", cat |-> "Dis", kind |-> "ge", res |-> "get", cols |-> <<"logVDss">>, n |-> 0, a |-> 4, b |-> 0],
    [key |-> "fu", cat |-> "Dis", kind |-> "range", res |-> "get", cols |-> <<"Fraction unbound (human)">>, n |-> 0, a |-> 10, b |-> 50],
    [key |-> "fu", cat |-> "Dis", kind |-> "range", res |-> "get", cols |-> <<"Fu">>, n |-> 0, a |-> 5830, b |-> 6200],
    [key |-> "cns_permeability", cat |-> "Dis", kind |-> "le", res |-> "get", cols |-> <<"CNS permeability">>, n |-> 0, a |-> -200, b |-> 0],
    [key |-> "mrp1", cat |-> "Dis", kind |-> "rank", res |-> "get", cols |-> <<"MRP1">>, n |-> 30, a |-> 30, b |-> 70],
    [key |-> "bsep", cat |-> "Dis", kind |-> "rank", res |-> "get", cols |-> <<"BSEP">>, n |-> 30, a |-> 30, b |-> 70],
    [key |-> "oatp1b3", cat |-> "Dis", kind |-> "rank", res |-> "get", cols |-> <<"OATP1B3">>, n |-> 30, a |-> 30, b |-> 70],
    [key |-> "oatp1b1", cat |-> "Dis", kind |-> "rank", res |-> "get", cols |-> <<"OATP1B1">>, n |-> 30, a |-> 30, b |-> 70],
    [key |-> "CYP2C9_inh", cat |-> "Met", kind |-> "rank", res |-> "get", cols |-> <<"CYP2C9-inh">>, n |-> 20, a |-> 30, b |-> 70],
    [key |-> "CYP2C8_inh", cat |-> "Met", kind |-> "rank", res |-> "get", cols |-> <<"CYP2C8-inh">>, n |-> 20, a |-> 30, b |-> 70],
    [key |-> "CYP2C19_inh", cat |-> "Met", kind |-> "rank", res |-> "get", cols |-> <<"CYP2C19-inh">>, n |-> 20, a |-> 30, b |-> 70],
    [key |-> "CYP2C19_sub", cat |-> "Met", kind |-> "rank", res |-> "get", cols |-> <<"CYP2C19-sub">>, n |-> 20, a |-> 30, b |-> 70],
    [key |-> "CYP2C19_inh", cat |-> "Met", kind |-> "cat", res |-> "get", cols |-> <<"CYP2C19 inhibitor">>, n |-> 0, a |-> 0, b |-> 0],
    [key |-> "CYP2D6_inh", cat |-> "Met", kind |-> "rank", res |-> "get", cols |-> <<"CYP2D6-inh">>, n |-> 20, a |-> 30, b |-> 70],
    [key |-> "CYP2D6_sub", cat |-> "Met", kind |-> "rank", res |-> "get", cols |-> <<"CYP2D6-sub", "CYP2D6_Substrate_CarbonMangels">>, n |-> 30, a |-> 30, b |-> 70],
    [key |-> "CYP3A4_inh", cat |-> "Met", kind |-> "rank", res |-> "get", cols |-> <<"CYP3A4-inh", "CYP3A4_Veith">>, n |-> 30, a |-> 30, b |-> 70],
    [key |-> "CYP3A4_sub", cat |-> "Met", kind |-> "rank", res |-> "get", cols |-> <<"CYP3A4-sub", "CYP3A4_Substrate_CarbonMangels">>, n |-> 20, a |-> 30, b |-> 70],
    [key |-> "CYP3A4_sub", cat |-> "Met", kind |-> "cat", res |-> "get", cols |-> <<"CYP3A4 substrate">>, n |-> 0, a |-> 0, b |-> 0],
    [key |-> "CYP2B6_inh", cat |-> "Met", kind |-> "rank", res |-> "get", cols |-> <<"CYP2B6-inh">>, n |-> 30, a |-> 30, b |-> 70],
    [key |-> "hlm_stab", cat |-> "Met", kind |-> "rank", res |-> "get", cols |-> <<"LM-human">>, n |-> 30, a |-> 30, b |-> 70],
    [key |-> "oct2_subs", cat |-> "Exc", kind |-> "cat", res |-> "get", cols |-> <<"Renal OCT2 substrate">>, n |-> 0, a |-> 0, b |-> 0],
    [key |-> "cl_total", cat |-> "Exc", kind |-> "range", res |-> "get", cols |-> <<"Total Clearance">>, n |-> 0, a |-> 120, b |-> 130],
    [key |-> "cl_plasma", cat |-> "Exc", kind |-> "range", res |-> "get", cols |-> <<"cl-plasma">>, n |-> 0, a |-> 700, b |-> 800],
    [key |-> "resp_tox", cat |-> "Tox", kind |-> "rank", res |-> "get", cols |-> <<"Respiratory">>, n |-> 30, a |-> 30, b |-> 70],
    [key |-> "neuro_tox", cat |-> "Tox", kind |-> "rank", res |-> "get", cols |-> <<"Neurotoxicity-DI">>, n |-> 30, a |-> 30, b |-> 70],
    [key |-> "oto_tox", cat |-> "Tox", kind |-> "rank", res |-> "get", cols |-> <<"Ototoxicity">>, n |-> 30, a |-> 30, b |-> 70],
    [key |-> "hema_tox", cat |-> "Tox", kind |-> "rank", res |-> "get", cols |-> <<"Hematotoxicity">>, n |-> 30, a |-> 30, b |-> 70],
    [key |-> "gen_tox", cat |-> "Tox", kind |-> "rank", res |-> "get", cols |-> <<"Genotoxicity">>, n |-> 30, a |-> 30, b |-> 70],
    [key |-> "ames", cat |-> "Tox", kind |-> "rank", res |-> "get", cols |-> <<"Ames">>, n |-> 30, a |-> 30, b |-> 70],
    [key |-> "ames", cat |-> "Tox", kind |-> "rank", res |-> "get", cols |-> <<"AMES">>, n |-> 30, a |-> 10, b |-> 20],
    [key |-> "ames", cat |-> "Tox", kind |-> "cat", res |-> "get", cols |-> <<"AMES toxicity">>, n |-> 0, a |-> 0, b |-> 0],
    [key |-> "carcino_tox", cat |-> "Tox", kind |-> "rank", res |-> "get", cols |-> <<"Carcinogenicity">>, n |-> 30, a |-> 30, b |-> 70],
    [key |-> "herg", cat |-> "Tox", kind |-> "rank", res |-> "get", cols |-> <<"hERG">>, n |-> 30, a |-> 30, b |-> 70],
    [key |-> "herg_10um", cat |-> "Tox", kind |-> "rank", res |-> "get", cols |-> <<"hERG-10um">>, n |-> 30, a |-> 30, b |-> 70],
    [key |-> "hepa_tox", cat |-> "Tox", kind |-> "rank", res |-> "get", cols |-> <<"H-HT">>, n |-> 30, a |-> 30, b |-> 70],
    [key |-> "dili", cat |-> "Tox", kind |-> "rank", res |-> "get", cols |-> <<"DILI">>, n |-> 30, a |-> 30, b |-> 80],
    [key |-> "dili", cat |-> "Tox", kind |-> "rank", res |-> "get", cols |-> <<"DILI_AI">>, n |-> 30, a |-> 5, b |-> 10],
    [key |-> "dili", cat |-> "Tox", kind |-> "cat", res |-> "get", cols |-> <<"Hepatotoxicity">>, n |-> 0, a |-> 0, b |-> 0],
    [key |-> "A549", cat |-> "Tox", kind |-> "rank", res |-> "get", cols |-> <<"A549">>, n |-> 30, a |-> 30, b |-> 70],
    [key |-> "HEK293", cat |-> "Tox", kind |-> "rank", res |-> "get", cols |-> <<"HEK293">>, n |-> 30, a |-> 30, b |-> 70],
    [key |-> "ROA", cat |-> "Tox", kind |-> "rank", res |-> "get", cols |-> <<"ROA">>, n |-> 30, a |-> 30, b |-> 70],
    [key |-> "FDAMDD", cat |-> "Tox", kind |-> "rank", res |-> "get", cols |-> <<"FDAMDD">>, n |-> 30, a |-> 30, b |-> 70],
    [key |-> "IGC50", cat |-> "Tox", kind |-> "le", res |-> "get", cols |-> <<"IGC50">>, n |-> 0, a |-> 350, b |-> 0],
    [key |-> "IGC50", cat |-> "Tox", kind |-> "rank", res |-> "get", cols |-> <<"<i>T.Pyriformis</i> toxicity">>, n |-> 10, a |-> 30, b |-> 70],
    [key |-> "LC50FM", cat |-> "Tox", kind |-> "rank", res |-> "get", cols |-> <<"LC50FM">>, n |-> 30, a |-> 300, b |-> 430],
    [key |-> "LC50FM", cat |-> "Tox", kind |-> "ge", res |-> "get", cols |-> <<"Minnow toxicity">>, n |-> 0, a |-> 206, b |-> 0],
    [key |-> "LC50DM", cat |-> "Tox", kind |-> "rank", res |-> "get", cols |-> <<"LC50DM">>, n |-> 30, a |-> 450, b |-> 470],
    [key |-> "nr_ar", cat |-> "Tox", kind |-> "rank", res |-> "get", cols |-> <<"NR-AR">>, n |-> 30, a |-> 30, b |-> 70],
    [key |-> "nr_ar_lbd", cat |-> "Tox", kind |-> "rank", res |-> "get", cols |-> <<"NR-AR-LBD">>, n |-> 30, a |-> 30, b |-> 70],
    [key |-> "nr_er", cat |-> "Tox", kind |-> "rank", res |-> "get", cols |-> <<"NR-ER">>, n |-> 30, a |-> 30, b |-> 70],
    [key |-> "nr_arom", cat |-> "Tox", kind |-> "rank", res |-> "get", cols |-> <<"NR-Aromatase">>, n |-> 30, a |-> 30, b |-> 70],
    [key |-> "nr_ahr", cat |-> "Tox", kind |-> "rank", res |-> "get", cols |-> <<"NR-AhR">>, n |-> 30, a |-> 30, b |-> 70],
    [key |-> "sr_are", cat |-> "Tox", kind |-> "rank", res |-> "get", cols |-> <<"SR-ARE">>, n |-> 30, a |-> 30, b |-> 70],
    [key |-> "sr_atad5", cat |-> "Tox", kind |-> "rank", res |-> "get", cols |-> <<"SR-ATAD5">>, n |-> 30, a |-> 30, b |-> 70],
    [key |-> "sr_mmp", cat |-> "Tox", kind |-> "rank", res |-> "get", cols |-> <<"SR-MMP">>, n |-> 30, a |-> 30, b |-> 70],
    [key |-> "sr_p53", cat |-> "Tox", kind |-> "rank", res |-> "get", cols |-> <<"SR-p53">>, n |-> 30, a |-> 30, b |-> 70],
    [key |-> "sure_chembl", cat |-> "Tox", kind |-> "list", res |-> "get", cols |-> <<"SureChEMBL">>, n |-> 0, a |-> 0, b |-> 0]
  >>

NRules == Len(Rules)

Categories == <<"FQ", "MedChem", "Abs", "Dis", "Met", "Exc", "Tox">>
CategorySet == {Categories[i] : i \in 1..Len(Categories)}

RulesOf(cat) == {i \in 1..NRules : Rules[i].cat = cat}
\* the block of a category taking in the first statement of the next block
LastOf_next(cat) ==
  (CHOOSE i \in RulesOf(cat) : \A j \in RulesOf(cat) : j <= i)
    + (IF cat = "Tox" THEN 0 ELSE 1)
\* the last rule of the block if <cat>: ...
LastOf(cat) == CHOOSE i \in RulesOf(cat) : \A j \in RulesOf(cat) : j <= i

ColsOf(i) == {Rules[i].cols[k] : k \in 1..Len(Rules[i].cols)}
ColumnsOfCategory(cat) == UNION {ColsOf(i) : i \in RulesOf(cat)}

---------------------------------------------------------------------------
\* Reading the row and the weights

\* row.get(c)
Get(r, c) == IF c \in DOMAIN r THEN r[c] ELSE None

\* row.get(c1, row.get(c2)): the default is used only when c1 is no key of the row
RECURSIVE GetChain(_, _)
GetChain(r, cols) ==
  IF cols = <<>> THEN None
  ELSE IF Head(cols) \in DOMAIN r THEN r[Head(cols)]
  ELSE GetChain(r, Tail(cols))

\* row.get(c1) or row.get(c2) or row.get(c3): the first true operand, else the last
RECURSIVE OrChain(_, _)
OrChain(r, cols) ==
  IF Len(cols) = 1 THEN Get(r, cols[1])
  ELSE IF Truthy(Get(r, Head(cols))) THEN Get(r, Head(cols))
  ELSE OrChain(r, Tail(cols))

Resolve(r, rule) ==
  IF rule.res = "or" THEN OrChain(r, rule.cols) ELSE GetChain(r, rule.cols)

\* pesos.get(key, 0.0)
WeightOf(p, key) == IF key \in DOMAIN p THEN p[key] ELSE 0

\* the override laid over the default table
EffectiveWeights_merged(arg) == arg @@ DEFAULT_WEIGHTS

\* pesos = pesos or DEFAULT_WEIGHTS: None and the empty dict are false.
\* The pesos argument None is modelled as the empty dict.
EffectiveWeights(arg) == IF DOMAIN arg = {} THEN DEFAULT_WEIGHTS ELSE arg

---------------------------------------------------------------------------
\* One criterion

Acc(s, m, b) == [score |-> s, max_score |-> m, breakdown |-> b]

\* add_score scoring a key once: a key already in the breakdown is passed over
add_score_first_wins(acc, p, key, value, n_threshold, best_threshold, middle_threshold) ==
  LET peso == WeightOf(p, key) IN
  IF peso = 0 \/ IsNone(value) \/ key \in DOMAIN acc.breakdown THEN acc
  ELSE LET contrib == rank_n(value, peso, n_threshold, best_threshold, middle_threshold) IN
       Acc(acc.score + contrib, acc.max_score + peso, (key :> contrib) @@ acc.breakdown)

\* add_score without the test peso == 0.0
add_score_unweighted(acc, p, key, value, n_threshold, best_threshold, middle_threshold) ==
  LET peso == WeightOf(p, key) IN
  IF IsNone(value) THEN acc
  ELSE LET contrib == rank_n(value, peso, n_threshold, best_threshold, middle_threshold) IN
       Acc(acc.score + contrib, acc.max_score + peso, (key :> contrib) @@ acc.breakdown)

\* the nested add_score(key, value, use_rank=True, ...)
add_score(acc, p, key, value, n_threshold, best_threshold, middle_threshold) ==
  LET peso == WeightOf(p, key) IN
  IF peso = 0 \/ IsNone(value) THEN acc
  ELSE LET contrib == rank_n(value, peso, n_threshold, best_threshold, middle_threshold) IN
       Acc(acc.score + contrib, acc.max_score + peso, (key :> contrib) @@ acc.breakdown)

add_score_raises(p, key, value, n_threshold) ==
  /\ ~ (WeightOf(p, key) = 0 \/ IsNone(value))
  /\ rank_n_raises(value, n_threshold)

\* the contribution an inline block computes, by the shape of its comparison
InlineContrib(rule, value, peso) ==
  CASE rule.kind = "range" ->
         IF Ge(value, rule.a) /\ Le(value, rule.b) THEN peso ELSE Half(peso)
    [] rule.kind = "ge" -> IF Ge(value, rule.a) THEN peso ELSE Half(peso)
    [] rule.kind = "le" -> IF Le(value, rule.a) THEN peso ELSE Half(peso)
    [] rule.kind = "tri_logp" ->
         IF Ge(value, rule.a) /\ Le(value, rule.b) THEN peso
         ELSE IF Ge(value, 0) THEN Half(peso) ELSE 0
    [] rule.kind = "tri_gt" ->
         IF Ge(value, rule.a) THEN peso
         ELSE IF Gt(value, rule.b) THEN Half(peso) ELSE 0
    [] rule.kind = "tri_ge" ->
         IF Ge(value, rule.a) THEN peso
         ELSE IF Ge(value, rule.b) THEN Half(peso) ELSE 0
    [] rule.kind = "cat" -> IF value = Str("No") THEN peso ELSE Half(peso)
    [] rule.kind = "list" ->
         IF value \in {Str("DashList"), Str("DashStr")} THEN peso ELSE Half(peso)

\* an inline block that leaves an entry already in the breakdown as it is
inline_block_keeps_first(acc, p, rule, value) ==
  LET peso == WeightOf(p, rule.key) IN
  IF ~ IsNone(value) /\ peso > 0
  THEN LET contrib == InlineContrib(rule, value, peso) IN
       Acc(acc.score + contrib, acc.max_score + peso, acc.breakdown @@ (rule.key :> contrib))
  ELSE acc

\* an inline block with max_score += contrib
inline_block_max_contrib(acc, p, rule, value) ==
  LET peso == WeightOf(p, rule.key) IN
  IF ~ IsNone(value) /\ peso > 0
  THEN LET contrib == InlineContrib(rule, value, peso) IN
       Acc(acc.score + contrib, acc.max_score + contrib, (rule.key :> contrib) @@ acc.breakdown)
  ELSE acc

\* an inline block: value = ...; peso = pesos.get(key, 0.0);
\* if value is not None and peso > 0: ...
inline_block(acc, p, rule, value) ==
  LET peso == WeightOf(p, rule.key) IN
  IF ~ IsNone(value) /\ peso > 0
  THEN LET contrib == InlineContrib(rule, value, peso) IN
       Acc(acc.score + contrib, acc.max_score + peso, (rule.key :> contrib) @@ acc.breakdown)
  ELSE acc

inline_block_raises(p, rule, value) ==
  /\ ~ IsNone(value) /\ WeightOf(p, rule.key) > 0
  /\ rule.kind \notin {"cat", "list"}
  /\ ~ IsNumber(value)

\* a rule applied to the running totals, given the value resolved for it
ApplyValue(acc, p, rule, value) ==
  IF rule.kind = "rank"
  THEN add_score(acc, p, rule.key, value, rule.n, rule.a, rule.b)
  ELSE inline_block(acc, p, rule, value)

\* rule i applied to the running totals
ApplyRule(acc, r, p, i) == ApplyValue(acc, p, Rules[i], Resolve(r, Rules[i]))

RuleRaises(r, p, i) ==
  LET rule == Rules[i]
      value == Resolve(r, rule)
  IN IF rule.kind = "rank"
     THEN add_score_raises(p, rule.key, value, rule.n)
     ELSE inline_block_raises(p, rule, value)

\* the Tox block outside its if
Enabled_tox_always(f, i) == f[Rules[i].cat] \/ Rules[i].cat = "Tox"

\* the if FQ: ... if Tox: around rule i
Enabled(f, i) == f[Rules[i].cat]

\* round(score / max_score, 4), in ten-thousandths: the nearest integer to
\* 10000 * s / m, a tie going to the even one
Round4(s, m) ==
  LET q == (10000 * s) \div m
      r2 == 2 * ((10000 * s) % m)
  IN IF r2 > m \/ (r2 = m /\ q % 2 = 1) THEN q + 1 ELSE q

\* the quotient cut to four decimals, not rounded
norm_score_truncated(s, m) == IF m > 0 THEN (10000 * s) \div m ELSE 0

norm_score(s, m) == IF m > 0 THEN Round4(s, m) ELSE 0

---------------------------------------------------------------------------
\* What a call gives back

Pending == [shape |-> "pending", score |-> 0, norm |-> 0, breakdown |-> <<>>]
Raised == [shape |-> "ValueError", score |-> 0, norm |-> 0, breakdown |-> <<>>]
Float(x) == [shape |-> "float", score |-> 0, norm |-> x, breakdown |-> <<>>]
Triple(s, n, b) == [shape |-> "triple", score |-> s, norm |-> n, breakdown |-> b]

\* the try block from rule i on: the totals it ends with, or the exception.
\* A rule in a disabled category is not run, and a rule none of whose columns
\* is a key of the row resolves None and changes nothing: the evaluation goes
\* from one rule that is run and reads a key of the row to the next.
RECURSIVE TryFrom(_, _, _, _, _)
TryFrom(i, acc, r, p, f) ==
  LET rest == {j \in i..NRules : Enabled(f, j) /\ ColsOf(j) \cap DOMAIN r # {}} IN
  IF rest = {} THEN [raised |-> FALSE, acc |-> acc]
  ELSE LET j == CHOOSE j \in rest : \A k \in rest : j <= k IN
       IF RuleRaises(r, p, j) THEN [raised |-> TRUE, acc |-> acc]
       ELSE TryFrom(j + 1, ApplyRule(acc, r, p, j), r, p, f)

\* calcular_puntaje_admet as a function of its arguments, for a Series row
calcular_puntaje_admet(r, p, rb, f) ==
  LET try == TryFrom(1, Acc(0, 0, <<>>), r, EffectiveWeights(p), f)
      norm == norm_score(try.acc.score, try.acc.max_score)
  IN IF try.raised THEN Float(0)
     ELSE IF rb THEN Triple(try.acc.score, norm, try.acc.breakdown)
     ELSE Float(norm)

---------------------------------------------------------------------------
\* The arguments the model calls the scorer with

MaxPresent == 2

\* the cells tried in a column: the boundaries of the rule that reads it, NaN,
\* a string where a number is expected; None as a cell and 0 where the rule
\* probes several columns
TestNumbers(rule) ==
  CASE rule.kind = "rank" /\ rule.n = 10 -> {rule.a, rule.a + 1}
    [] rule.kind = "rank" /\ rule.n # 10 -> {rule.a, rule.b, rule.b + 1}
    [] rule.kind = "range" -> {rule.a - 1, rule.a, rule.b, rule.b + 1}
    [] rule.kind = "ge" -> {rule.a - 1, rule.a}
    [] rule.kind = "le" -> {rule.a, rule.a + 1}
    [] rule.kind = "tri_logp" -> {0 - 1, rule.a - 1, rule.a, rule.b, rule.b + 1}
    [] rule.kind \in {"tri_gt", "tri_ge"} -> {rule.b - 1, rule.b, rule.b + 1, rule.a}
    [] OTHER -> {}

TestCells(i) ==
  LET rule == Rules[i] IN
  {Num(x) : x \in TestNumbers(rule)}
    \cup {NaN}
    \cup (IF Len(rule.cols) > 1 THEN {None} ELSE {})
    \cup (IF rule.res = "or" THEN {Num(0)} ELSE {})
    \cup (IF rule.kind = "list" THEN {Str("DashList"), Str("DashStr")} ELSE {})
    \cup (IF rule.kind = "cat" THEN {Str("No"), Str("Yes")} ELSE {Str("Yes")})

RuleOfColumn(c) == CHOOSE i \in 1..NRules : c \in ColsOf(i)
CellsOfColumn(c) == TestCells(RuleOfColumn(c))

\* the rows over a set of columns with at most n keys
RowsOver(cols, n) ==
  UNION {{r \in [d -> UNION {CellsOfColumn(c) : c \in d}] :
            \A c \in d : r[c] \in CellsOfColumn(c)} :
           d \in {e \in SUBSET cols : Cardinality(e) <= n}}

\* rows with at most n keys, all read by one rule or by two consecutive rules
Rows(n) ==
  UNION {RowsOver(ColsOf(i) \cup (IF i < NRules THEN ColsOf(i + 1) ELSE {}), n) :
           i \in 1..NRules}

CatsOf(r) == {Rules[RuleOfColumn(c)].cat : c \in DOMAIN r}
KeysOf(r) == {Rules[RuleOfColumn(c)].key : c \in DOMAIN r}

AllOn == [c \in CategorySet |-> TRUE]
AllOff == [c \in CategorySet |-> FALSE]
OnlyOff(cat) == [c \in CategorySet |-> c # cat]
OnlyOn(cat) == [c \in CategorySet |-> c = cat]

\* the category arguments tried with a row
FlagChoices(r) == {AllOn, AllOff} \cup {OnlyOff(c) : c \in CatsOf(r)} \cup {OnlyOn(c) : c \in CatsOf(r)}

\* the pesos arguments tried with a row: None (or {}), and the one-entry dicts
\* over the criteria of the row and one criterion that is not in DEFAULT_WEIGHTS
WeightChoices(r) ==
  {<<>>} \cup {(k :> w) : k \in KeysOf(r) \cup {"resp_tox"}, w \in {0, 200}}

Call(r, s, p, rb, f) ==
  [row |-> r, rowIsSeries |-> s, pesosArg |-> p, return_breakdown |-> rb, flags |-> f]

\* The calls.  The reference call is the one calcular_puntaje_admet_por_rubro
\* makes: a Series row, default weights, breakdown requested, every category on.
\* A row of at most MaxPresent keys is scored by the reference call; a row of
\* at most one key, or one whose keys lie in two categories, also under each
\* choice of flags; a row of at most one key also with the weights, the return
\* shape or the type of the row varied.
Calls ==
  {Call(r, TRUE, <<>>, TRUE, AllOn) : r \in Rows(MaxPresent)}
    \cup UNION {{Call(r, TRUE, <<>>, TRUE, f) : f \in FlagChoices(r)} :
                  r \in Rows(1) \cup {q \in Rows(MaxPresent) : Cardinality(CatsOf(q)) > 1}}
    \cup UNION {{Call(r, TRUE, p, TRUE, AllOn) : p \in WeightChoices(r)} : r \in Rows(1)}
    \cup {Call(r, TRUE, <<>>, FALSE, AllOn) : r \in Rows(1)}
    \cup {Call(r, FALSE, <<>>, TRUE, AllOn) : r \in Rows(1)}

\* no call of rank_n / of the scorer in progress
NoRank ==
  [variable |-> None, peso |-> 0, n_threshold |-> 0, best_threshold |-> 0,
   middle_threshold |-> 0, out |-> "none", result |-> 0]
NoCall == [shape |-> "none", score |-> 0, norm |-> 0, breakdown |-> <<>>]
\* no call of calcular_puntaje_admet_por_rubro / of consensus_score in progress
NoRubro == [i |-> 0, out |-> "none"]
NoConsensus == [out |-> "none", table |-> <<>>]
NoAggregate ==
  /\ dfs_list = <<>> /\ results_list = <<>> /\ rubro = NoRubro
  /\ dfs = <<>> /\ consensus = NoConsensus

---------------------------------------------------------------------------
\* The call

Init ==
  /\ \E c \in Calls :
       /\ row = c.row
       /\ rowIsSeries = c.rowIsSeries
       /\ pesosArg = c.pesosArg
       /\ return_breakdown = c.return_breakdown
       /\ flags = c.flags
  /\ pesos = pesosArg
  /\ pc = 0
  /\ score = 0 /\ max_score = 0 /\ breakdown = <<>>
  /\ ret = Pending
  /\ rk = NoRank
  /\ NoAggregate

args == <<row, rowIsSeries, pesosArg, return_breakdown, flags, rk, aggregate>>

Running == ret = Pending

\* lines 99-105, row is a pd.Series
Enter ==
  /\ Running /\ pc = 0 /\ rowIsSeries
  /\ pesos' = EffectiveWeights(pesosArg)
  /\ score' = 0 /\ max_score' = 0 /\ breakdown' = <<>>
  /\ pc' = 1
  /\ UNCHANGED <<args, ret>>

\* lines 100-101: raise ValueError
RejectRow ==
  /\ Running /\ pc = 0 /\ ~ rowIsSeries
  /\ pesos' = EffectiveWeights(pesosArg)
  /\ ret' = Raised
  /\ UNCHANGED <<args, pc, score, max_score, breakdown>>

\* if FQ: ... if Tox: with the flag False
SkipCategory ==
  /\ Running /\ pc \in 1..NRules
  /\ ~ Enabled(flags, pc)
  /\ pc' = LastOf(Rules[pc].cat) + 1
  /\ UNCHANGED <<args, pesos, score, max_score, breakdown, ret>>

\* a criterion scored through add_score(key, row.get(...), use_rank=True, ...)
AddScore ==
  /\ Running /\ pc \in 1..NRules
  /\ Enabled(flags, pc)
  /\ Rules[pc].kind = "rank"
  /\ ~ RuleRaises(row, pesos, pc)
  /\ LET rule == Rules[pc]
         acc == add_score(Acc(score, max_score, breakdown), pesos, rule.key,
                          Resolve(row, rule), rule.n, rule.a, rule.b)
     IN /\ score' = acc.score
        /\ max_score' = acc.max_score
        /\ breakdown' = acc.breakdown
  /\ pc' = pc + 1
  /\ UNCHANGED <<args, pesos, ret>>

\* a criterion scored by an inline block
InlineBlock ==
  /\ Running /\ pc \in 1..NRules
  /\ Enabled(flags, pc)
  /\ Rules[pc].kind # "rank"
  /\ ~ RuleRaises(row, pesos, pc)
  /\ LET rule == Rules[pc]
         acc == inline_block(Acc(score, max_score, breakdown), pesos, rule,
                             Resolve(row, rule))
     IN /\ score' = acc.score
        /\ max_score' = acc.max_score
        /\ breakdown' = acc.breakdown
  /\ pc' = pc + 1
  /\ UNCHANGED <<args, pesos, ret>>

\* the call without its except clause: the TypeError reaches the caller
Except_propagates ==
  /\ Running /\ pc \in 1..NRules
  /\ Enabled(flags, pc)
  /\ RuleRaises(row, pesos, pc)
  /\ ret' = [shape |-> "TypeError", score |-> 0, norm |-> 0, breakdown |-> <<>>]
  /\ UNCHANGED <<args, pesos, pc, score, max_score, breakdown>>

\* lines 574-577: except Exception: return 0.0
Except ==
  /\ Running /\ pc \in 1..NRules
  /\ Enabled(flags, pc)
  /\ RuleRaises(row, pesos, pc)
  /\ ret' = Float(0)
  /\ UNCHANGED <<args, pesos, pc, score, max_score, breakdown>>

\* lines 579-582
Return ==
  /\ Running /\ pc = NRules + 1
  /\ ret' = IF return_breakdown
            THEN Triple(score, norm_score(score, max_score), breakdown)
            ELSE Float(norm_score(score, max_score))
  /\ UNCHANGED <<args, pesos, pc, score, max_score, breakdown>>

Next == Enter \/ RejectRow \/ SkipCategory \/ AddScore \/ InlineBlock \/ Except \/ Return

Spec == Init /\ [][Next]_vars

---------------------------------------------------------------------------
\* rank_n called directly

RankRange == 2

RankCells == {None, NaN, Str("Yes")} \cup {Num(x) : x \in 0..(RankRange + 1)}
RankWeights == {0, 50, 100, 150}
\* n_threshold in tenths: 1, 1.5, 2, 3, and two values that are none of them
RankPolicies == {10, 15, 20, 30, 0, 25}

InitRank ==
  /\ row = <<>> /\ rowIsSeries = TRUE /\ pesosArg = <<>> /\ return_breakdown = TRUE
  /\ flags = AllOn /\ pesos = <<>> /\ pc = 0
  /\ score = 0 /\ max_score = 0 /\ breakdown = <<>>
  /\ ret = NoCall
  /\ NoAggregate
  /\ \E v \in RankCells, w \in RankWeights, n \in RankPolicies,
        b \in 1..RankRange, m \in 1..RankRange :
       rk = [variable |-> v, peso |-> w, n_threshold |-> n, best_threshold |-> b,
             middle_threshold |-> m, out |-> "pending", result |-> 0]

scorer == <<row, rowIsSeries, pesosArg, return_breakdown, flags, pesos, pc,
            score, max_score, breakdown, ret>>

\* rank_n returns
RankReturn ==
  /\ rk.out = "pending"
  /\ ~ rank_n_raises(rk.variable, rk.n_threshold)
  /\ rk' = [rk EXCEPT !.out = "value",
                      !.result = rank_n(rk.variable, rk.peso, rk.n_threshold,
                                        rk.best_threshold, rk.middle_threshold)]
  /\ UNCHANGED <<scorer, aggregate>>

\* variable <= best_threshold raises TypeError
RankRaise ==
  /\ rk.out = "pending"
  /\ rank_n_raises(rk.variable, rk.n_threshold)
  /\ rk' = [rk EXCEPT !.out = "TypeError"]
  /\ UNCHANGED <<scorer, aggregate>>

NextRank == RankReturn \/ RankRaise

SpecRank == InitRank /\ [][NextRank]_vars

---------------------------------------------------------------------------
\* Properties

Ended == ret.shape \in {"float", "triple", "ValueError", "TypeError"}
Returned == ret.shape \in {"float", "triple"}
Totals == Acc(score, max_score, breakdown)
AtRule == Running /\ pc \in 1..NRules /\ Enabled(flags, pc)

\* every alias column of the rule is missing from the row or holds None
AllAbsent(r, cols) == \A k \in 1..Len(cols) : IsNone(Get(r, cols[k]))

\* the value of the first alias, in the order probed, that is not absent
RECURSIVE FirstPresent(_, _)
FirstPresent(r, cols) ==
  IF cols = <<>> THEN None
  ELSE IF ~ IsNone(Get(r, Head(cols))) THEN Get(r, Head(cols))
  ELSE FirstPresent(r, Tail(cols))

SomeRuleRaises == \E i \in 1..NRules : Enabled(flags, i) /\ RuleRaises(row, pesos, i)

Abs(x) == IF x < 0 THEN 0 - x ELSE x

\* the step function and the function of the arguments agree
MachineAgreesWithFunction ==
  (rowIsSeries /\ Ended) =>
    ret = calcular_puntaje_admet(row, pesosArg, return_breakdown, flags)

\* C1: a criterion whose weight is 0, or whose value is absent from the row
\* (every alias column missing or None), is skipped: score, max_score and
\* breakdown are left as they were.
C1_SkippedCriterionLeavesTotals ==
  [][(AtRule /\ (WeightOf(pesos, Rules[pc].key) = 0 \/ AllAbsent(row, Rules[pc].cols)))
       => (pc' = pc + 1 /\ ret' = ret /\ score' = score /\ max_score' = max_score
             /\ breakdown' = breakdown)]_vars

\* a column of a weight-0 criterion held a value and the criterion was passed
C1_Witness ==
  /\ Running /\ pc \in 2..(NRules + 1) /\ Enabled(flags, pc - 1)
  /\ WeightOf(pesos, Rules[pc - 1].key) = 0
  /\ ~ AllAbsent(row, Rules[pc - 1].cols)
  /\ Rules[pc - 1].key \notin DOMAIN breakdown

\* the contributions a rule of each kind can give for a weight
KindValues(kind, peso) ==
  IF kind = "rank" THEN {peso, Half(peso), ThreeTenths(peso), 0}
  ELSE IF kind \in {"cat", "list"} THEN {peso, Half(peso)}
  ELSE {peso, Half(peso), 0}

\* C2: a criterion that is evaluated (weight not 0, resolved value present,
\* category on) adds its contribution to score and its full weight to
\* max_score and records the contribution in breakdown under its key, for
\* tiered, direct-threshold and categorical rules alike.
C2_EvaluatedCriterionAccumulates ==
  [][(AtRule /\ pc' = pc + 1
        /\ WeightOf(pesos, Rules[pc].key) # 0 /\ ~ IsNone(Resolve(row, Rules[pc])))
       => \E contrib \in KindValues(Rules[pc].kind, WeightOf(pesos, Rules[pc].key)) :
            /\ score' = score + contrib
            /\ max_score' = max_score + WeightOf(pesos, Rules[pc].key)
            /\ breakdown' = (Rules[pc].key :> contrib) @@ breakdown]_vars

\* a tiered and a categorical criterion were both evaluated
C2_Witness ==
  /\ Running
  /\ DOMAIN breakdown = {"hlm_stab", "oct2_subs"}
  /\ score = breakdown["hlm_stab"] + breakdown["oct2_subs"]
  /\ max_score = pesos["hlm_stab"] + pesos["oct2_subs"]

C4_BreakdownAlwaysTriple ==
  (return_breakdown /\ Returned) =>
    /\ ret.shape = "triple"
    /\ SomeRuleRaises => ret = Triple(0, 0, <<>>)

\* C5: for n_threshold 3, 2, 1.5 and 1, every weight and every number, rank_n
\* gives the documented tier, a value on a boundary falling in the better one.
C5_RankTiers ==
  (rk.out # "pending" /\ rk.variable.t = "num") =>
    LET v == rk.variable.v
        w == rk.peso
        best == rk.best_threshold
        middle == rk.middle_threshold
        n == rk.n_threshold
    IN /\ n \in {30, 20, 15, 10} => rk.out = "value"
       /\ (n = 30 /\ best <= middle) =>
            /\ v <= best => rk.result = w
            /\ (best < v /\ v <= middle) => rk.result = Half(w)
            /\ v > middle => rk.result = ThreeTenths(w)
       /\ (n = 20 /\ best <= middle) =>
            /\ v <= best => rk.result = w
            /\ (best < v /\ v <= middle) => rk.result = Half(w)
            /\ v > middle => rk.result = 0
       /\ n = 15 =>
            /\ v <= best => rk.result = w
            /\ v > best => rk.result = Half(w)
       /\ n = 10 =>
            /\ v <= best => rk.result = w
            /\ v > best => rk.result = 0

\* rank_n returned the full weight for a value exactly on best_threshold
C5_Witness ==
  /\ rk.out = "value" /\ rk.n_threshold = 20 /\ rk.peso > 0
  /\ rk.variable = Num(rk.best_threshold)
  /\ rk.best_threshold < rk.middle_threshold
  /\ rk.result = rk.peso

\* C6: the normalized score returned is score / max_score rounded to four
\* decimals when max_score > 0, and 0.0 when max_score is 0.
C6_NormalizedScore ==
  (Returned /\ pc = NRules + 1) =>
    /\ max_score > 0 => 2 * Abs(10000 * score - ret.norm * max_score) <= max_score
    /\ max_score = 0 => ret.norm = 0
    /\ return_breakdown => (ret.score = score /\ ret.breakdown = breakdown)

\* a row with a cell was scored with nothing evaluable and got 0.0
C6_Witness ==
  /\ Returned /\ pc = NRules + 1 /\ max_score = 0 /\ ret.norm = 0
  /\ DOMAIN row # {}

\* C7: with non-negative weights, 0 <= score <= max_score after every
\* criterion, so the normalized score returned lies in [0, 1].
C7_ScoreWithinMax ==
  (\A k \in DOMAIN pesos : pesos[k] >= 0) =>
    /\ 0 <= score /\ score <= max_score
    /\ Returned => (0 <= ret.norm /\ ret.norm <= 10000)

\* two criteria were evaluated and the score is strictly between 0 and max_score
C7_Witness ==
  /\ Running /\ Cardinality(DOMAIN breakdown) = 2
  /\ 0 < score /\ score < max_score

\* C8: with all seven flags False and a breakdown requested the call returns
\* (0.0, 0.0, {}) for any row.
C8_AllFlagsOff ==
  (rowIsSeries /\ return_breakdown /\ flags = AllOff /\ Ended) =>
    ret = Triple(0, 0, <<>>)

\* a row holding a cell was scored with every flag False
C8_Witness ==
  /\ flags = AllOff /\ DOMAIN row # {} /\ ret = Triple(0, 0, <<>>)

RemoveColumns(r, cat) == [c \in DOMAIN r \ ColumnsOfCategory(cat) |-> r[c]]

\* C9: with a category flag False the result is the result of scoring the row
\* with that category's columns removed, whatever their cells hold.
C9_DisabledCategoryIgnored ==
  (rowIsSeries /\ Ended) =>
    \A c \in CategorySet :
      ~ flags[c] =>
        \A b \in BOOLEAN :
          ret = calcular_puntaje_admet(RemoveColumns(row, c), pesosArg,
                                       return_breakdown, [flags EXCEPT ![c] = b])

\* a row with a cell in a disabled category and a criterion scored in another
C9_Witness ==
  /\ Returned /\ DOMAIN breakdown # {}
  /\ \E c \in CategorySet : ~ flags[c] /\ DOMAIN row \cap ColumnsOfCategory(c) # {}

\* C10: a criterion resolved from several alias columns is scored on the value
\* of the first alias, in the order probed, whose value is not absent.
C10_FirstPresentAliasScored ==
  [][(AtRule /\ Len(Rules[pc].cols) > 1 /\ WeightOf(pesos, Rules[pc].key) # 0
        /\ (IsNumber(FirstPresent(row, Rules[pc].cols)) \/ Rules[pc].kind = "cat"))
       => /\ pc' = pc + 1
          /\ Acc(score', max_score', breakdown')
               = ApplyValue(Totals, pesos, Rules[pc], FirstPresent(row, Rules[pc].cols))]_vars

\* what one evaluation of a rule contributes for a value and a weight
Contribution(rule, value, peso) ==
  IF rule.kind = "rank" THEN rank_n(value, peso, rule.n, rule.a, rule.b)
  ELSE InlineContrib(rule, value, peso)

\* the rules that evaluate something for the row: weight not 0, a value resolved
Evaluated(r, p) ==
  {i \in 1..NRules : WeightOf(p, Rules[i].key) # 0 /\ ~ IsNone(Resolve(r, Rules[i]))}

\* C11 as stated: whenever the row holds non-absent values under two alias
\* columns of one criterion, both are scored: the weight is in max_score twice
\* and the breakdown has the single entry of the criterion.
C11_TwoAliasesBothScored ==
  (pc = NRules + 1 /\ flags = AllOn) =>
    \A c1, c2 \in DOMAIN row :
      (/\ c1 # c2 /\ DOMAIN row = {c1, c2}
       /\ row[c1].t \notin {"None", "NaN"} /\ row[c2].t \notin {"None", "NaN"}
       /\ Rules[RuleOfColumn(c1)].key = Rules[RuleOfColumn(c2)].key
       /\ WeightOf(pesos, Rules[RuleOfColumn(c1)].key) > 0)
      => LET key == Rules[RuleOfColumn(c1)].key
             w == WeightOf(pesos, key)
         IN /\ max_score = 2 * w
            /\ DOMAIN breakdown = {key}
            /\ \E c \in KindValues(Rules[RuleOfColumn(c1)].kind, w) \cup
                         KindValues(Rules[RuleOfColumn(c2)].kind, w) :
                 score = c + breakdown[key]

\* C11 amended: when two separate evaluation steps of one criterion key each
\* resolve a value that is not None, both are scored: each adds its
\* contribution to score and the full weight to max_score, and the breakdown
\* keeps the single entry of the key with the contribution of the later step.
\* Columns probed by one step (one alias chain) are scored once.
C11_SeparateStepsBothScored ==
  (pc = NRules + 1 /\ flags = AllOn) =>
    LET E == Evaluated(row, pesos) IN
    /\ \A i, j \in E :
         (i < j /\ Rules[i].key = Rules[j].key /\ E = {i, j}) =>
           LET key == Rules[i].key
               w == WeightOf(pesos, key)
               ci == Contribution(Rules[i], Resolve(row, Rules[i]), w)
               cj == Contribution(Rules[j], Resolve(row, Rules[j]), w)
           IN /\ score = ci + cj
              /\ max_score = 2 * w
              /\ breakdown = (key :> cj)
    /\ \A i \in E :
         E = {i} =>
           /\ max_score = WeightOf(pesos, Rules[i].key)
           /\ DOMAIN breakdown = {Rules[i].key}

\* two columns of one key scored by two steps with different contributions:
\* the breakdown holds the later one, the score both
C11_Witness ==
  /\ pc = NRules + 1 /\ flags = AllOn
  /\ LET E == Evaluated(row, pesos) IN
     \E i, j \in E :
       /\ i < j /\ Rules[i].key = Rules[j].key /\ E = {i, j}
       /\ max_score = 2 * WeightOf(pesos, Rules[i].key)
       /\ DOMAIN breakdown = {Rules[i].key}
       /\ score > 2 * breakdown[Rules[i].key]

\* the rules with something to evaluate in the row: category on, weight not 0,
\* an alias column holding a value that is not absent
Evaluable(r, p, f) ==
  {i \in 1..NRules :
     Enabled(f, i) /\ WeightOf(p, Rules[i].key) # 0 /\ ~ AllAbsent(r, Rules[i].cols)}

\* C12: a row with exactly one evaluable criterion, of weight w, whose value
\* lands in the criterion's good tier, gets normalized_score 1.0 and a
\* breakdown with exactly one entry, equal to w.
C12_SingleGoodCriterion ==
  (rowIsSeries /\ return_breakdown /\ Ended) =>
    LET E == Evaluable(row, pesos, flags) IN
    \A i \in E :
      LET w == WeightOf(pesos, Rules[i].key)
          value == FirstPresent(row, Rules[i].cols)
      IN (/\ E = {i}
          /\ w > 0
          /\ value.t \in {"num", "No", "DashList", "DashStr"}
          /\ Contribution(Rules[i], value, w) = w)
         => ret = Triple(w, 10000, (Rules[i].key :> w))

\* C18: for an n_threshold other than 3, 2, 1.5 and 1, rank_n returns 0.0 for
\* every value that is not None, every weight and every pair of thresholds,
\* and raises nothing.
C18_OtherPolicyGivesZero ==
  (rk.out # "pending" /\ ~ IsNone(rk.variable) /\ rk.n_threshold \notin {30, 20, 15, 10}) =>
    (rk.out = "value" /\ rk.result = 0)

\* rank_n was called with n_threshold 2.5, a positive weight and a number
\* under best_threshold, and returned 0.0
C18_Witness ==
  /\ rk.out = "value" /\ rk.n_threshold = 25 /\ rk.peso > 0
  /\ rk.variable.t = "num" /\ rk.variable.v < rk.best_threshold
  /\ rk.result = 0

\* C19: for the value None rank_n returns 0.0, for every weight, n_threshold
\* and pair of thresholds, and no comparison is made (nothing is raised).
C19_NoneGivesZero ==
  (rk.out # "pending" /\ IsNone(rk.variable)) => (rk.out = "value" /\ rk.result = 0)

\* rank_n was called with None under the three-tier policy and a positive
\* weight, and returned 0.0
C19_Witness ==
  /\ rk.out = "value" /\ IsNone(rk.variable) /\ rk.n_threshold = 30 /\ rk.peso > 0
  /\ rk.result = 0

\* C20: a criterion scored by rank_n with n_threshold 2 whose value is a number
\* above middle_threshold adds 0 to score and its full weight to max_score and
\* records 0.0 in breakdown under its key, so the normalized score of the
\* running totals does not rise, and falls when score is positive.
C20_TwoTierBadValue ==
  [][(/\ AtRule /\ Rules[pc].kind = "rank" /\ Rules[pc].n = 20
      /\ WeightOf(pesos, Rules[pc].key) # 0
      /\ Resolve(row, Rules[pc]).t = "num"
      /\ Resolve(row, Rules[pc]).v > Rules[pc].b)
       => /\ pc' = pc + 1
          /\ score' = score
          /\ max_score' = max_score + WeightOf(pesos, Rules[pc].key)
          /\ breakdown' = (Rules[pc].key :> 0) @@ breakdown
          /\ norm_score(score', max_score') <= norm_score(score, max_score)
          /\ score > 0 => norm_score(score', max_score') < norm_score(score, max_score)]_vars

\* a two-tier criterion above middle_threshold was scored after a criterion
\* that earned its weight: 0 in the breakdown, the weight in max_score
C20_Witness ==
  /\ Running /\ pc \in 2..(NRules + 1)
  /\ Rules[pc - 1].kind = "rank" /\ Rules[pc - 1].n = 20
  /\ Cardinality(DOMAIN breakdown) = 2
  /\ Rules[pc - 1].key \in DOMAIN breakdown
  /\ breakdown[Rules[pc - 1].key] = 0
  /\ Resolve(row, Rules[pc - 1]).t = "num"
  /\ score > 0 /\ max_score = score + WeightOf(pesos, Rules[pc - 1].key)

---------------------------------------------------------------------------
\* consensus_by_class.py: scoring and ranking each source table
\* (calcular_puntaje_admet_por_rubro) and the consensus of the source tables
\* (consensus_score).  A table is a sequence of rows; a compound's name is a
\* number.  A consensus score is kept as the fraction num / den.

MaxCompounds == 3

\* the names zipped with dfs_list: "ADMET AI", "Swiss ADMET", "PKCSM"
SourceNames == 3

Min(a, b) == IF a < b THEN a ELSE b

RECURSIVE Sum(_)
Sum(xs) == IF xs = <<>> THEN 0 ELSE Head(xs) + Sum(Tail(xs))

\* Series.rank(ascending=False, method='min'): one more than the number of
\* entries that are greater
RankMin(xs) ==
  [k \in 1..Len(xs) |-> 1 + Cardinality({j \in 1..Len(xs) : xs[j] > xs[k]})]

\* the sort order of the opposite direction
SortOrders_reversed(keys, ascending) ==
  {p \in Permutations(1..Len(keys)) :
     \A k \in 1..(Len(keys) - 1) :
       IF ascending THEN keys[p[k]] >= keys[p[k + 1]]
       ELSE keys[p[k]] <= keys[p[k + 1]]}

\* the orders sort_values can leave the rows in: keys[p[1]], keys[p[2]], ...
\* never descends (ascending) or never ascends (descending); the order among
\* equal keys is not fixed
SortOrders(keys, ascending) ==
  {p \in Permutations(1..Len(keys)) :
     \A k \in 1..(Len(keys) - 1) :
       IF ascending THEN keys[p[k]] <= keys[p[k + 1]]
       ELSE keys[p[k]] >= keys[p[k + 1]]}

Reorder(table, p) == [k \in 1..Len(table) |-> table[p[k]]]

\* results = df.apply(calcular_puntaje_admet, axis=1, return_breakdown=True, **kwargs)
Results(df, f) ==
  [k \in 1..Len(df) |-> calcular_puntaje_admet(df[k].row, <<>>, TRUE, f)]

\* results.apply(lambda x: x[0]) on a result that is the float 0.0
Subscript_raises(results) == \E k \in 1..Len(results) : results[k].shape = "float"

\* lines 34-37: the four columns added to df
AddColumns(df, results) ==
  LET ranks == RankMin([k \in 1..Len(df) |-> results[k].score]) IN
  [k \in 1..Len(df) |->
     [name |-> df[k].name, row |-> df[k].row,
      ADMET_Score |-> results[k].score,
      ADMET_Norm_Score |-> results[k].norm,
      ADMET_Breakdown |-> results[k].breakdown,
      ADMET_Rank |-> ranks[k]]]

\* final_df[['name', 'ADMET_Norm_Score']]
NameAndNorm(df) ==
  [k \in 1..Len(df) |-> [name |-> df[k].name, ADMET_Norm_Score |-> df[k].ADMET_Norm_Score]]

\* the tables scored: rows over two columns, one numeric and one categorical
RubroCells(c) ==
  IF c = "Ghose #violations" THEN {Num(0), Num(200), Str("Yes")}
  ELSE {Str("No"), None}
RubroRows == {r \in [{"Ghose #violations", "AMES toxicity"} -> {Num(0), Num(200), Str("Yes"), Str("No"), None}] :
                \A c \in DOMAIN r : r[c] \in RubroCells(c)}
RubroTables(n) ==
  UNION {{[k \in 1..m |-> [name |-> k, row |-> rows[k]]] : rows \in [1..m -> RubroRows]} :
           m \in 1..n}
RubroInputs ==
  {<<t>> : t \in RubroTables(MaxCompounds)}
    \cup {<<t, u>> : t \in RubroTables(1), u \in RubroTables(1)}
    \cup {<<t, t, t, t>> : t \in RubroTables(1)}
RubroFlags == {AllOn, OnlyOn("Tox"), OnlyOn("MedChem")}

InitRubro ==
  /\ row = <<>> /\ rowIsSeries = TRUE /\ pesosArg = <<>> /\ return_breakdown = TRUE
  /\ pesos = <<>> /\ pc = 0
  /\ score = 0 /\ max_score = 0 /\ breakdown = <<>>
  /\ ret = NoCall /\ rk = NoRank
  /\ flags \in RubroFlags
  /\ dfs_list \in RubroInputs
  /\ results_list = <<>>
  /\ rubro = [i |-> 1, out |-> "running"]
  /\ dfs = <<>> /\ consensus = NoConsensus

InLoop == rubro.out = "running" /\ rubro.i <= Min(Len(dfs_list), SourceNames)

\* one pass of the loop at line 25
ScoreSource ==
  /\ InLoop
  /\ LET df == dfs_list[rubro.i]
         results == Results(df, flags)
     IN /\ ~ Subscript_raises(results)
        /\ dfs_list' = [dfs_list EXCEPT ![rubro.i] = AddColumns(df, results)]
        /\ \E p \in SortOrders([k \in 1..Len(df) |-> results[k].norm], FALSE) :
             results_list' = Append(results_list,
                                    NameAndNorm(Reorder(AddColumns(df, results), p)))
  /\ rubro' = [rubro EXCEPT !.i = rubro.i + 1]
  /\ UNCHANGED <<scorer, rk, dfs, consensus>>

\* line 34 on a result that is no tuple: TypeError, nothing added to df
ScoreSourceRaise ==
  /\ InLoop
  /\ Subscript_raises(Results(dfs_list[rubro.i], flags))
  /\ rubro' = [rubro EXCEPT !.out = "TypeError"]
  /\ UNCHANGED <<scorer, rk, dfs_list, results_list, dfs, consensus>>

\* line 53
RubroReturn ==
  /\ rubro.out = "running" /\ rubro.i > Min(Len(dfs_list), SourceNames)
  /\ rubro' = [rubro EXCEPT !.out = "returned"]
  /\ UNCHANGED <<scorer, rk, dfs_list, results_list, dfs, consensus>>

NextRubro == ScoreSource \/ ScoreSourceRaise \/ RubroReturn

SpecRubro == InitRubro /\ [][NextRubro]_vars

---------------------------------------------------------------------------
\* consensus_score

\* the rows of one source after the rename of line 64 matched with a row of
\* the merged table: the source's score becomes the next "ADMET Score i"
RECURSIVE MatchRows(_, _)
MatchRows(l, right) ==
  IF right = <<>> THEN <<>>
  ELSE (IF Head(right).name = l.name
        THEN <<[name |-> l.name, scores |-> Append(l.scores, Head(right).ADMET_Norm_Score)]>>
        ELSE <<>>)
         \o MatchRows(l, Tail(right))

\* a left join: a row without a match is kept, with no score of the source
RECURSIVE InnerMerge_left(_, _)
InnerMerge_left(left, right) ==
  IF left = <<>> THEN <<>>
  ELSE (IF MatchRows(Head(left), right) = <<>> THEN <<Head(left)>>
        ELSE MatchRows(Head(left), right))
         \o InnerMerge_left(Tail(left), right)

\* pd.merge(df_merged, df, on="name", how="inner"): every pair of a left and a
\* right row of one name, in the order of the left rows
RECURSIVE InnerMerge(_, _)
InnerMerge(left, right) ==
  IF left = <<>> THEN <<>>
  ELSE MatchRows(Head(left), right) \o InnerMerge(Tail(left), right)

\* lines 67-69: df_merged = dfs[0]; for df in dfs[1:]: df_merged = merge(...)
RECURSIVE MergeFrom(_, _, _)
MergeFrom(df_merged, i, tables) ==
  IF i > Len(tables) THEN df_merged
  ELSE MergeFrom(InnerMerge(df_merged, tables[i]), i + 1, tables)

\* the mean taken as if there were two sources
Mean_over_two(scores) == [num |-> Sum(scores), den |-> 2]

\* df_merged[score_cols].mean(axis=1), as a fraction
Mean(scores) == [num |-> Sum(scores), den |-> Len(scores)]

Greater(x, y) == x.num * y.den > y.num * x.den
Same(x, y) == x.num * y.den = y.num * x.den

\* the ranks of method='min' where the code asks for 'dense'
RankDense_min(xs) ==
  [k \in 1..Len(xs) |-> 1 + Cardinality({j \in 1..Len(xs) : Greater(xs[j], xs[k])})]

\* rank(ascending=False, method="dense").astype(int): one more than the
\* number of distinct values that are greater (the fractions of one table have
\* one denominator, so distinct fractions are distinct values)
RankDense(xs) ==
  [k \in 1..Len(xs) |->
     1 + Cardinality({xs[j] : j \in {i \in 1..Len(xs) : Greater(xs[i], xs[k])}})]

\* lines 60-82 for a list of tables that is not empty: the merged table with
\* its two new columns, before the sort
Merged(tables) ==
  LET first == [k \in 1..Len(tables[1]) |->
                  [name |-> tables[1][k].name,
                   scores |-> <<tables[1][k].ADMET_Norm_Score>>]]
      df_merged == MergeFrom(first, 2, tables)
      means == [k \in 1..Len(df_merged) |-> Mean(df_merged[k].scores)]
      ranks == RankDense(means)
  IN [k \in 1..Len(df_merged) |->
        [name |-> df_merged[k].name, scores |-> df_merged[k].scores,
         admet_score_consensus |-> means[k],
         admet_rank_consensus |-> ranks[k]]]

\* the tables given to consensus_score: the compounds of a table have
\* distinct names and come by descending score as line 42 leaves them; one
\* table holds a name twice
ScoreLevels == {5000, 10000}
SourceRows(levels) == [name : 1..MaxCompounds, ADMET_Norm_Score : levels]
SourceTables(levels) ==
  {t \in UNION {[1..m -> SourceRows(levels)] : m \in 0..MaxCompounds} :
     /\ \A j, k \in 1..Len(t) : j # k => t[j].name # t[k].name
     /\ \A k \in 1..(Len(t) - 1) :
          \/ t[k].ADMET_Norm_Score > t[k + 1].ADMET_Norm_Score
          \/ (t[k].ADMET_Norm_Score = t[k + 1].ADMET_Norm_Score /\ t[k].name < t[k + 1].name)}
TwiceNamed ==
  <<[name |-> 1, ADMET_Norm_Score |-> 10000], [name |-> 1, ADMET_Norm_Score |-> 5000]>>
FirstSources == SourceTables(ScoreLevels) \cup {TwiceNamed}
ThirdSources == SourceTables({5000})
ConsensusInputs ==
  {<<>>}
    \cup {<<t>> : t \in FirstSources}
    \cup {<<t, u>> : t \in FirstSources, u \in FirstSources}
    \cup {<<t, u, v>> : t \in FirstSources, u \in FirstSources, v \in ThirdSources}

InitConsensus ==
  /\ row = <<>> /\ rowIsSeries = TRUE /\ pesosArg = <<>> /\ return_breakdown = TRUE
  /\ flags = AllOn /\ pesos = <<>> /\ pc = 0
  /\ score = 0 /\ max_score = 0 /\ breakdown = <<>>
  /\ ret = NoCall /\ rk = NoRank
  /\ dfs_list = <<>> /\ results_list = <<>> /\ rubro = NoRubro
  /\ dfs \in ConsensusInputs
  /\ consensus = [out |-> "pending", table |-> <<>>]

\* consensus_score returns the merged table sorted by admet_rank_consensus
ConsensusScore ==
  /\ consensus.out = "pending" /\ Len(dfs) > 0
  /\ LET df_merged == Merged(dfs) IN
     \E p \in SortOrders([k \in 1..Len(df_merged) |-> df_merged[k].admet_rank_consensus], TRUE) :
       consensus' = [out |-> "returned", table |-> Reorder(df_merged, p)]
  /\ UNCHANGED <<scorer, rk, dfs_list, results_list, rubro, dfs>>

\* line 67 on an empty list: dfs[0] raises IndexError
ConsensusRaise ==
  /\ consensus.out = "pending" /\ Len(dfs) = 0
  /\ consensus' = [consensus EXCEPT !.out = "IndexError"]
  /\ UNCHANGED <<scorer, rk, dfs_list, results_list, rubro, dfs>>

NextConsensus == ConsensusScore \/ ConsensusRaise

SpecConsensus == InitConsensus /\ [][NextConsensus]_vars

---------------------------------------------------------------------------
\* Properties of the source tables and of the consensus

\* the tables the loop has scored
ScoredTables == {dfs_list[i] : i \in 1..(rubro.i - 1)}

\* C16: in every source table scored, a compound's ADMET_Rank is the 'min'
\* rank of its normalized score in descending order: one more than the number
\* of compounds of the table with a greater normalized score.
C16_RankOfNormalizedScore ==
  rubro.out \in {"running", "returned"} =>
    \A df \in ScoredTables :
      \A k \in 1..Len(df) :
        df[k].ADMET_Rank
          = 1 + Cardinality({j \in 1..Len(df) : df[j].ADMET_Norm_Score > df[k].ADMET_Norm_Score})

NamesOf(table) == {table[k].name : k \in 1..Len(table)}

\* C13: the consensus is an inner join on the name: a compound is in the
\* output if and only if it is in every source table.
C13_InnerJoin ==
  consensus.out = "returned" =>
    NamesOf(consensus.table) = {n \in 1..MaxCompounds : \A i \in 1..Len(dfs) : n \in NamesOf(dfs[i])}

\* of three sources a compound in only two is left out, another is in all
\* three and in the output
C13_Witness ==
  /\ consensus.out = "returned" /\ Len(dfs) = 3
  /\ consensus.table # <<>>
  /\ \E n \in 1..MaxCompounds :
       /\ n \notin NamesOf(consensus.table)
       /\ Cardinality({i \in 1..3 : n \in NamesOf(dfs[i])}) = 2

\* C14: for every compound of the output, admet_score_consensus is the
\* arithmetic mean of its normalized scores, one from each source table given.
C14_MeanOverAllSources ==
  consensus.out = "returned" =>
    \A k \in 1..Len(consensus.table) :
      LET r == consensus.table[k] IN
      /\ Len(r.scores) = Len(dfs)
      /\ \A i \in 1..Len(dfs) :
           \E j \in 1..Len(dfs[i]) :
             dfs[i][j].name = r.name /\ dfs[i][j].ADMET_Norm_Score = r.scores[i]
      /\ r.admet_score_consensus.den > 0
      /\ r.admet_score_consensus.num * Len(dfs) = Sum(r.scores) * r.admet_score_consensus.den

\* a compound scored 1.0, 0.5 and 0.5 by three sources has the consensus 2/3
C14_Witness ==
  /\ consensus.out = "returned" /\ Len(dfs) = 3
  /\ \E k \in 1..Len(consensus.table) :
       /\ consensus.table[k].scores = <<10000, 5000, 5000>>
       /\ consensus.table[k].admet_score_consensus.num * 3
            = 20000 * consensus.table[k].admet_score_consensus.den

\* C15: admet_rank_consensus is the dense rank of admet_score_consensus in
\* descending order: equal scores share a rank, a higher score has a smaller
\* rank, and the ranks used are 1..k for k distinct scores.
C15_DenseRank ==
  consensus.out = "returned" =>
    LET t == consensus.table
        rows == 1..Len(t)
    IN /\ \A a, b \in rows :
            /\ Same(t[a].admet_score_consensus, t[b].admet_score_consensus)
                 => t[a].admet_rank_consensus = t[b].admet_rank_consensus
            /\ Greater(t[a].admet_score_consensus, t[b].admet_score_consensus)
                 => t[a].admet_rank_consensus < t[b].admet_rank_consensus
       /\ {t[a].admet_rank_consensus : a \in rows}
            = 1..Cardinality({t[a].admet_score_consensus : a \in rows})

\* three compounds, two of them with the best consensus score: ranks 1, 1, 2
C15_Witness ==
  /\ consensus.out = "returned" /\ Len(consensus.table) = 3
  /\ consensus.table[1].admet_rank_consensus = 1
  /\ consensus.table[2].admet_rank_consensus = 1
  /\ consensus.table[3].admet_rank_consensus = 2
  /\ Greater(consensus.table[2].admet_score_consensus, consensus.table[3].admet_score_consensus)

\* C17: the table returned is sorted ascending by admet_rank_consensus: of two
\* consecutive rows the earlier has the smaller or the same rank.
C17_SortedByRank ==
  consensus.out = "returned" =>
    \A k \in 1..(Len(consensus.table) - 1) :
      consensus.table[k].admet_rank_consensus <= consensus.table[k + 1].admet_rank_consensus

\* the first row of the first source is not the first row of the output: the
\* compound that led the first source was passed by another in the consensus
C17_Witness ==
  /\ consensus.out = "returned" /\ Len(dfs) >= 2 /\ Len(consensus.table) >= 2
  /\ consensus.table[1].name # dfs[1][1].name
  /\ dfs[1][1].name \in NamesOf(consensus.table)
  /\ consensus.table[1].admet_rank_consensus < consensus.table[Len(consensus.table)].admet_rank_consensus

---------------------------------------------------------------------------
\* The breakdown against the score, and the weight table in use

\* the sum of the values of a dict
RECURSIVE SumValues(_)
SumValues(d) ==
  IF DOMAIN d = {} THEN 0
  ELSE LET k == CHOOSE k \in DOMAIN d : TRUE
       IN d[k] + SumValues([j \in DOMAIN d \ {k} |-> d[j]])

\* the rules the call evaluated: category on, weight not 0, a value resolved
EvaluatedInCall == {i \in Evaluated(row, pesos) : Enabled(flags, i)}

\* the evaluations whose breakdown entry a later evaluation of the key replaced
Overwritten ==
  {i \in EvaluatedInCall : \E j \in EvaluatedInCall : j > i /\ Rules[j].key = Rules[i].key}

\* the contributions of a set of evaluations, summed
RECURSIVE SumContributions(_)
SumContributions(S) ==
  IF S = {} THEN 0
  ELSE LET i == CHOOSE i \in S : TRUE
       IN Contribution(Rules[i], Resolve(row, Rules[i]), WeightOf(pesos, Rules[i].key))
            + SumContributions(S \ {i})

\* C21 as stated: at the end of a call that did not hit the error path the
\* values of breakdown sum to at most score, with equality exactly when no
\* criterion was evaluated more than once; every key of breakdown has a
\* non-zero weight in the table in use.
C21_BreakdownSumEqualIffOnce ==
  (pc = NRules + 1) =>
    /\ SumValues(breakdown) <= score
    /\ (SumValues(breakdown) = score) <=> (Overwritten = {})
    /\ \A k \in DOMAIN breakdown : WeightOf(pesos, k) # 0

\* C21 amended: at the end of a call that did not hit the error path, score is
\* the sum of the values of breakdown plus the contributions that a later
\* evaluation of the same key replaced; so the sum is at most score, equal to
\* it when no criterion was evaluated more than once, and less only when a
\* replaced contribution was positive.  Every key of breakdown has a non-zero
\* weight in the table in use.
C21_BreakdownSumPlusOverwritten ==
  (pc = NRules + 1) =>
    /\ score = SumValues(breakdown) + SumContributions(Overwritten)
    /\ SumValues(breakdown) <= score
    /\ (Overwritten = {}) => SumValues(breakdown) = score
    /\ \A k \in DOMAIN breakdown : WeightOf(pesos, k) # 0

\* a criterion was evaluated twice, the first time for 0.0: the breakdown
\* still sums to the score
C21_Witness ==
  /\ pc = NRules + 1
  /\ Overwritten # {}
  /\ score > 0
  /\ SumValues(breakdown) = score

\* C22: a pesos argument that is not empty replaces the default table: the
\* table in use is the argument itself, and a criterion without an entry in
\* it is skipped, with score, max_score and breakdown left as they were,
\* whatever its default weight and whatever its cell holds.
C22_OverrideReplacesDefaults ==
  [][(rowIsSeries /\ DOMAIN pesosArg # {})
       => /\ pesos' = pesosArg
          /\ DOMAIN breakdown' \subseteq DOMAIN pesosArg
          /\ (AtRule /\ Rules[pc].key \notin DOMAIN pesosArg)
               => (pc' = pc + 1 /\ ret' = ret /\ score' = score
                     /\ max_score' = max_score /\ breakdown' = breakdown)]_vars

\* an override naming only another criterion: the row's criterion, of positive
\* default weight and with a number in its column, was passed over
C22_Witness ==
  /\ pc = NRules + 1
  /\ pesosArg = ("resp_tox" :> 200)
  /\ \E c \in DOMAIN row :
       /\ row[c].t = "num"
       /\ WeightOf(DEFAULT_WEIGHTS, Rules[RuleOfColumn(c)].key) > 0
  /\ score = 0 /\ max_score = 0 /\ breakdown = <<>>

====
